---- MODULE Spec2Model ----
(***************************************************************************)
(* The message path of the WhatsApp relay service.                         *)
(*                                                                         *)
(* The repository holds four versions of the 'message' event handler:      *)
(*   "manager"  WhatsAppManager of whatsapp-manager.js (unified handler,   *)
(*              handleMessage, handleCategoryResponse,                     *)
(*              handleValidationResponse)                                  *)
(*   "relay"    WhatsAppManager of unnamed/part_000 (reply_message relay   *)
(*              with the staleness and group filters)                      *)
(*   "relay2"   WhatsAppManager of unnamed/part_001 (reply_message relay   *)
(*              without filters)                                           *)
(*   "client"   WhatsAppClient of whatsapp-client.js (single tenant)       *)
(* A deployment runs one of them; the variable `variant` says which.       *)
(*                                                                         *)
(* Every handler is an async function: it runs to its next await, and      *)
(* other handlers run while it waits.  The suspension point kept here is   *)
(* the backend request (axios.post): the chat and contact lookups and the  *)
(* media download are folded into the arrival step, the outbound sends     *)
(* into the step that reads the response.  The backend is an opaque        *)
(* oracle: its responses, and the failure of a request, a media download   *)
(* or a send, are inputs.                                                  *)
(***************************************************************************)
EXTENDS Integers, Sequences, FiniteSets, TLC

VARIABLES
    variant,             \* which version of the handler is deployed
    slot,                \* the handler invocations in flight, by slot
    pendingValidations,  \* WhatsAppClient.pendingValidations: pending_id -> groupId
    pending,             \* observer: per conversation, the questions sent to the chat and not yet answered
    clients,             \* WhatsAppManager.clients: userId -> client (0: no entry)
    qrCodes,             \* WhatsAppManager.qrCodes: userId -> the client whose QR code is stored (0: no entry)
    transport,           \* per userId, the transport clients created for it and what the transport signalled
    question,            \* a question message being composed: the template, its inputs, its lines
    shutdown             \* the SIGINT handler: where it stands in WhatsAppManager.destroy()

msgVars == <<variant, slot, pendingValidations, pending>>
regVars == <<clients, qrCodes, transport, shutdown>>
vars == <<variant, slot, pendingValidations, pending, clients, qrCodes, transport, question,
         shutdown>>

-----------------------------------------------------------------------------
(* Bounds of the model *)

\* handler invocations that can be in flight together
MaxInFlight == 2
\* questions that can be outstanding together, over all conversations
MaxPending == 2
Slots == 1 .. MaxInFlight
\* transport clients that can be created for one user
MaxClients == 2

Variants == {"manager", "relay", "relay2", "client"}

\* g1 and g2 are group chats, d1 is a direct chat
Convs == {"g1", "g2", "d1"}
isGroup(c) == c \in {"g1", "g2"}

PendIds == {"p1", "p2"}
None == "none"

\* the users (tenants) of the service
Users == {"t1", "t2"}

\* the user whose client receives the messages of a chat: g1 and d1 are chats of
\* t1, g2 is a chat of t2
owner(c) == IF c = "g2" THEN "t2" ELSE "t1"

\* the chats of t1
ConvsOfOne == {"g1", "d1"}

-----------------------------------------------------------------------------
(* Inbound messages *)

Bodies == {"sim", " SIM ", "material", "boleto R$200"}
\* the reply texts: the tokens and spellings of them
ReplyBodies ==
    {"sim", "Sim", " sim ", "SIM", " SIM ", "não", "nao", "NÃO", "nâo", "editar",
     "material", "Material", "mao de obra", "mão de obra", "MÃO DE OBRA"}
\* contact.id._serialized of the author
Senders == {"u1"}
ReplySenders == {"u1", "u2"}
Types == {"chat", "image"}
\* message age at processing time, in milliseconds
Ages == {60000, 60001}

hasMedia(type) == type = "image"

\* String.prototype.trim on the bodies of the model
trim(s) ==
    CASE s = " SIM " -> "SIM"
      [] s = " sim " -> "sim"
      [] OTHER -> s

\* String.prototype.toLowerCase on the bodies of the model
toLowerCase(s) ==
    CASE s \in {"SIM", "Sim"} -> "sim"
      [] s = " SIM " -> " sim "
      [] s = "NÃO" -> "não"
      [] s = "Material" -> "material"
      [] s = "MÃO DE OBRA" -> "mão de obra"
      [] OTHER -> s

\* (message.body || '').trim().toLowerCase()
messageText(body) == toLowerCase(trim(body))

oneMinute == 60000

-----------------------------------------------------------------------------
(* Classification of an inbound message by each handler.  The result is    *)
(* "drop_stale", "drop_not_group", "drop_poll", "category", "validation"   *)
(* or "message".                                                            *)

\* whatsapp-manager.js, client.on('message'): the unified handler
unifiedHandler(m) ==
    LET text == messageText(m.body) IN
    IF m.age > oneMinute THEN "drop_stale"
    ELSE IF ~isGroup(m.conv) THEN "drop_not_group"
    ELSE IF text \in {"material", "mao de obra", "mão de obra"} THEN "category"
    ELSE IF text \in {"sim", "não", "nao", "editar"} THEN "validation"
    ELSE "message"

\* unnamed/part_000, client.on('message')
relayHandler(m) ==
    IF m.age > 60000 THEN "drop_stale"
    ELSE IF ~isGroup(m.conv) THEN "drop_not_group"
    ELSE "message"

\* unnamed/part_001, client.on('message'): no filter at all
relay2Handler(m) == "message"

\* whatsapp-client.js, handleMessage: no staleness filter
clientHandler(m) ==
    LET text == messageText(m.body) IN
    IF ~isGroup(m.conv) THEN "drop_not_group"
    ELSE IF m.type = "poll_creation" THEN "drop_poll"
    ELSE IF text \in {"material", "1", "mao de obra", "mão de obra", "mao", "2"} THEN "category"
    ELSE IF text \in {"sim", "não", "nao", "editar"} THEN "validation"
    ELSE "message"

Route(v, m) ==
    CASE v = "manager" -> unifiedHandler(m)
      [] v = "relay"   -> relayHandler(m)
      [] v = "relay2"  -> relay2Handler(m)
      [] v = "client"  -> clientHandler(m)

\* handleCategoryResponse: the option of a category reply
categoryOption(v, text) ==
    IF text = "material" \/ (v = "client" /\ text = "1") THEN "0"
    ELSE IF text \in {"mao de obra", "mão de obra"} \/ (v = "client" /\ text \in {"mao", "2"}) THEN "1"
    ELSE None

\* a handler that takes 'nao' for a request to edit
validationOption_naoEdits(text) ==
    IF text = "sim" THEN "0"
    ELSE IF text = "não" THEN "1"
    ELSE IF text \in {"editar", "nao"} THEN "2"
    ELSE None

\* handleValidationResponse: the option of a validation reply
validationOption(text) ==
    IF text = "sim" THEN "0"
    ELSE IF text \in {"não", "nao"} THEN "1"
    ELSE IF text = "editar" THEN "2"
    ELSE None

-----------------------------------------------------------------------------
(* Backend responses.  A response is a record of the fields the handlers   *)
(* read; a field the backend left out is FALSE or None.                    *)

\* whatsapp-manager.js, handleMessage: commandStatuses
commandStatuses ==
    {"diary_started", "diary_ended", "info", "report_generated",
     "registration_mode_activated", "registration_completed", "registration_failed",
     "registration_cancelled", "context_learned", "query_response",
     "phone_registered", "phone_already_registered", "pending_validation"}

\* whatsapp-client.js, handleMessage: commandStatuses
clientCommandStatuses ==
    {"registration_mode_activated", "registration_completed", "registration_failed",
     "registration_cancelled", "context_learned", "diary_started", "diary_ended",
     "report_generated"}

\* the statuses the oracle answers /webhook with; "processed" stands for any other status
WebhookStatuses ==
    {"info", "needs_duplicate_confirmation", "needs_category_selection",
     "diary_entry_saved", "processed"}

WebhookResponses(v) ==
    CASE v = "manager" ->
           [status : WebhookStatuses, message : BOOLEAN, processed_info : BOOLEAN,
            validation_required : BOOLEAN, pending_id : {None}, reply_message : {FALSE}]
      [] v \in {"relay", "relay2"} ->
           [status : {"processed"}, message : {FALSE}, processed_info : {FALSE},
            validation_required : {FALSE}, pending_id : {None}, reply_message : BOOLEAN]
      [] v = "client" ->
           [status : {"diary_started", "needs_category_selection", "processed"},
            message : BOOLEAN, processed_info : {TRUE},
            validation_required : {FALSE}, pending_id : PendIds \cup {None},
            reply_message : {FALSE}]

\* next_validation: None, or the kind of the queued follow-up
\* ("category": next.needs_category_selection is set; "validation": it is not).
\* 'needs_category' and 'needs_validation' continue the item that was answered:
\* the handler reads no other field of such a response, and the oracle sets none.
ChoiceResponses(v, ep, conv) ==
    CASE v = "manager" /\ ep = "category-selection" ->
           [status : {"ok"}, send_confirmation : {FALSE}, send_message : {FALSE},
            next_validation : {None, "category", "validation"},
            send_validation_poll : BOOLEAN, group_id : {conv}]
      [] v = "manager" /\ ep = "poll-vote" ->
           [status : {"needs_category", "needs_validation"},
            send_confirmation : {FALSE}, send_message : {FALSE},
            next_validation : {None},
            send_validation_poll : {FALSE}, group_id : {conv}]
           \cup
           [status : {"rejected", "ok"},
            send_confirmation : BOOLEAN, send_message : BOOLEAN,
            next_validation : {None, "category", "validation"},
            send_validation_poll : {FALSE}, group_id : {conv}]
      [] v = "client" /\ ep = "category-selection" ->
           [status : {"ok"}, send_confirmation : {FALSE}, send_message : {FALSE},
            next_validation : {None}, send_validation_poll : BOOLEAN, group_id : {conv}]
      [] v = "client" /\ ep = "poll-vote" ->
           [status : {"ok"}, send_confirmation : BOOLEAN, send_message : BOOLEAN,
            next_validation : {None}, send_validation_poll : {FALSE},
            group_id : ConvsOfOne]
      [] OTHER -> {}

\* the fields of a response, each with the value of a field the backend left out
NoResponse ==
    [status |-> None, message |-> FALSE, processed_info |-> FALSE,
     validation_required |-> FALSE, pending_id |-> None, reply_message |-> FALSE,
     send_confirmation |-> FALSE, send_message |-> FALSE, next_validation |-> None,
     send_validation_poll |-> FALSE, group_id |-> None]

-----------------------------------------------------------------------------
(* What a handler sends for a response: the outbound messages in the order *)
(* of the sendMessage calls.  guarded: the send sits in a try/catch of its *)
(* own, so its failure does not end the handler.  next: the message is the *)
(* question of the queued follow-up (next_validation).                     *)

Msg(kind, to) == [kind |-> kind, to |-> to, guarded |-> FALSE, next |-> FALSE]
Guarded(kind, to) == [kind |-> kind, to |-> to, guarded |-> TRUE, next |-> FALSE]
NextQuestion(next, to) ==
    [kind |-> IF next = "category" THEN "category_question" ELSE "validation_question",
     to |-> to, guarded |-> FALSE, next |-> TRUE]

QuestionKinds == {"category_question", "validation_question"}

\* a handleMessage whose command branch does not return
handleMessage_fallsThrough(r, conv) ==
    (IF r.status \in commandStatuses /\ r.message THEN <<Msg("reply", conv)>> ELSE <<>>)
    \o (IF r.validation_required /\ r.processed_info
          THEN <<Msg("validation_question", conv)>> ELSE <<>>)

\* whatsapp-manager.js, handleMessage, after the /webhook response
handleMessage(r, conv) ==
    IF r.status \in commandStatuses
      THEN IF r.message THEN <<Msg("reply", conv)>> ELSE <<>>
    ELSE IF r.status = "needs_duplicate_confirmation"
      THEN <<Msg("duplicate_question", conv)>>
    ELSE IF r.status = "needs_category_selection" /\ r.processed_info
      THEN <<Msg("category_question", conv)>>
    ELSE IF r.status = "diary_entry_saved"
      THEN <<>>
    ELSE IF r.validation_required /\ r.processed_info
      THEN <<Msg("validation_question", conv)>>
    ELSE <<>>

\* whatsapp-manager.js, handleCategoryResponse, after the /category-selection response
handleCategoryResponse(r, conv) ==
    (IF r.next_validation # None THEN <<NextQuestion(r.next_validation, conv)>> ELSE <<>>)
    \o (IF r.send_validation_poll THEN <<Msg("validation_question", conv)>> ELSE <<>>)

\* whatsapp-manager.js, handleValidationResponse, after the /poll-vote response
handleValidationResponse(r, conv) ==
    IF r.status = "needs_category" THEN <<Msg("category_question", conv)>>
    ELSE IF r.status = "needs_validation" THEN <<Msg("validation_question", conv)>>
    ELSE IF r.status = "rejected" THEN <<Msg("reject", conv)>>
    ELSE (IF r.send_confirmation THEN <<Msg("confirm", conv)>> ELSE <<>>)
      \o (IF r.send_message THEN <<Msg("edit", conv)>> ELSE <<>>)
      \o (IF r.next_validation # None THEN <<NextQuestion(r.next_validation, conv)>> ELSE <<>>)

\* unnamed/part_000 and part_001, after the /webhook response
relayReply(r, conv) ==
    IF r.reply_message THEN <<Msg("reply", conv)>> ELSE <<>>

\* whatsapp-client.js, handleMessage, after sendToWebhook
clientHandleMessage(r, conv) ==
    IF r.status \in clientCommandStatuses
      THEN IF r.message THEN <<Msg("reply", conv)>> ELSE <<>>
    ELSE IF r.status = "needs_category_selection"
      THEN <<Guarded("category_question", conv)>>
    ELSE IF r.pending_id # None
      THEN <<Guarded("validation_question", conv)>>
    ELSE <<>>

\* whatsapp-client.js, handleMessage: the pending_id stored after the validation poll
clientStorePending(r) ==
    IF r.status \notin clientCommandStatuses /\ r.status # "needs_category_selection"
      THEN r.pending_id
      ELSE None

\* whatsapp-client.js, handleCategoryResponse
clientHandleCategoryResponse(r, conv) ==
    IF r.send_validation_poll THEN <<Guarded("validation_question", conv)>> ELSE <<>>

\* whatsapp-client.js, handleValidationResponse: both sends go to the response's group_id
clientHandleValidationResponse(r) ==
    (IF r.send_confirmation THEN <<Msg("confirm", r.group_id)>> ELSE <<>>)
    \o (IF r.send_message THEN <<Msg("edit", r.group_id)>> ELSE <<>>)

Compose(v, ep, r, conv) ==
    CASE v = "manager" /\ ep = "webhook"            -> handleMessage(r, conv)
      [] v = "manager" /\ ep = "category-selection" -> handleCategoryResponse(r, conv)
      [] v = "manager" /\ ep = "poll-vote"          -> handleValidationResponse(r, conv)
      [] v \in {"relay", "relay2"}                  -> relayReply(r, conv)
      [] v = "client" /\ ep = "webhook"             -> clientHandleMessage(r, conv)
      [] v = "client" /\ ep = "category-selection"  -> clientHandleCategoryResponse(r, conv)
      [] v = "client" /\ ep = "poll-vote"           -> clientHandleValidationResponse(r)

-----------------------------------------------------------------------------
(* What each version does with a failure.  where: "media" (downloadMedia), *)
(* "webhook" or "choice" (the backend request), "send" (an outbound send), *)
(* "poll_send" (a send inside sendCategoryPoll / sendValidationPoll),      *)
(* "errsend" (the send of the error message, inside the catch).            *)
(* The outcome: "log" (caught, logged, the handler ends), "reply" (caught, *)
(* the generic error message is sent), "continue" (caught, the handler     *)
(* goes on), "retry" (the request is issued again), "escape" (the          *)
(* exception leaves the event handler).                                    *)

\* a handler that issues a failed backend request again
managerCatch_retry(where) == IF where \in {"webhook", "choice"} THEN "retry" ELSE "log"

\* a handler with a try of its own around downloadMedia that goes on without the media
managerCatch_skipsMedia(where) == IF where = "media" THEN "continue" ELSE "log"

\* whatsapp-manager.js: the catch of handleMessage, handleCategoryResponse,
\* handleValidationResponse and of the unified handler only log
managerCatch(where) == "log"

\* a handler whose error reply is not wrapped in a try of its own
relayCatch_noInnerTry(where) == IF where = "errsend" THEN "escape" ELSE "reply"

\* unnamed/part_000: one try around the handler, an inner try around the error reply
relayCatch(where) == IF where = "errsend" THEN "log" ELSE "reply"

\* unnamed/part_001: as part_000, and a try of its own around downloadMedia
relay2Catch(where) ==
    IF where = "media" THEN "continue"
    ELSE IF where = "errsend" THEN "log"
    ELSE "reply"

\* whatsapp-client.js: downloadMedia, sendToWebhook and the two poll senders catch
\* their own failure; everything else ends in a logging catch
clientCatch(where) ==
    IF where \in {"media", "webhook", "poll_send"} THEN "continue" ELSE "log"

Catch(v, where) ==
    CASE v = "manager" -> managerCatch(where)
      [] v = "relay"   -> relayCatch(where)
      [] v = "relay2"  -> relay2Catch(where)
      [] v = "client"  -> clientCatch(where)

-----------------------------------------------------------------------------
(* The state machine *)

\* a media message carries a caption that is no reply token
Messages ==
    {m \in [conv : ConvsOfOne, body : Bodies, type : Types, age : Ages, sender : Senders] :
        hasMedia(m.type) => m.body = "boleto R$200"}

\* a slot no handler runs in
IdleSlot ==
    [pc |-> "idle", user |-> "t1", conv |-> "g1", body |-> "sim", type |-> "chat", age |-> 60000,
     sender |-> "u1", ep |-> None, opt |-> None, store |-> None,
     calls |-> <<>>, out |-> <<>>, fail |-> {}, drop |-> None, esc |-> FALSE,
     hadPending |-> FALSE, next |-> None, resp |-> NoResponse]

\* pc:    "idle", "awaitBackend" (the axios.post is outstanding), "done" (the
\*        handler has returned; Return frees the slot)
\* user:  the userId of the client the handler was registered on
\* ep:    the endpoint of the outstanding request; opt: its selected_option
\* store: the pending_id WhatsAppClient stored at the end of the handler
\* observers of the invocation: calls (the requests issued), out (the messages
\* delivered), fail (the failures met), drop (the filter that dropped the message),
\* esc (an exception left the handler), hadPending (a question was outstanding in
\* the conversation when the message was classified), next (the next_validation
\* of the response this handler received), resp (the response it received)

\* new Map() for clients and qrCodes; no transport client exists.
\* transport[u]: phase (of each client made for u, by the number of its creation),
\* created (how many were made), qrGen (the clients whose 'qr' handler awaits
\* toDataURL), loggingOut (the client whose logout() is awaited, 0: none),
\* returned (what the last getClient(u) returned), reused (the last getClient(u)
\* found the client in the registry), answer (the HTTP status of the last
\* POST /logout/u that was answered, 0: none)
\* query: the last GET request on the user that was answered (op), and its answer
NoQuery ==
    [op |-> None, code |-> 0, connected |-> FALSE, hasQR |-> FALSE, client_state |-> None,
     qr |-> 0]

InitRegistry ==
    /\ clients = [u \in Users |-> 0]
    /\ qrCodes = [u \in Users |-> 0]
    /\ transport = [u \in Users |->
                       [phase |-> [k \in 1 .. MaxClients |-> "none"], created |-> 0,
                        qrGen |-> {}, loggingOut |-> 0, returned |-> 0,
                        reused |-> FALSE, answer |-> 0, query |-> NoQuery]]

\* the process serves; no SIGINT was received.  pc: "serving", "destroying" (the
\* loop of destroy() awaits client.destroy() of the client of `current`),
\* "exited" (process.exit(0)), "failed" (the handler threw); visited: the users
\* whose client the loop has been through; failed: those whose destroy() threw
NoShutdown == [pc |-> "serving", current |-> None, visited |-> {}, failed |-> {}]

\* no question is being composed
NoQuestion == [template |-> None, info |-> None, message |-> None, lines |-> <<>>]

Init ==
    /\ variant \in Variants
    /\ slot = [s \in Slots |-> IdleSlot]
    /\ pendingValidations = [p \in PendIds |-> None]
    /\ pending = [c \in Convs |-> <<>>]
    /\ InitRegistry
    /\ question = NoQuestion
    /\ shutdown = NoShutdown

\* every user has been initialized and its client, the first made for it, is ready
ServingRegistry ==
    /\ clients = [u \in Users |-> 1]
    /\ qrCodes = [u \in Users |-> 0]
    /\ transport = [u \in Users |->
                       [phase |-> [k \in 1 .. MaxClients |->
                                      IF k = 1 THEN "ready" ELSE "none"],
                        created |-> 1, qrGen |-> {}, loggingOut |-> 0, returned |-> 1,
                        reused |-> FALSE, answer |-> 0, query |-> NoQuery]]

\* the service with the sessions of its users ready and no handler running
InitServing ==
    /\ variant \in Variants
    /\ slot = [s \in Slots |-> IdleSlot]
    /\ pendingValidations = [p \in PendIds |-> None]
    /\ pending = [c \in Convs |-> <<>>]
    /\ ServingRegistry
    /\ question = NoQuestion
    /\ shutdown = NoShutdown

Done(r) == [r EXCEPT !.pc = "done", !.ep = None]

\* axios.post(ep, ...): the request is issued and the handler awaits the response
Request(r, ep, opt) ==
    [r EXCEPT !.pc = "awaitBackend", !.ep = ep, !.opt = opt,
              !.calls = Append(@, [ep |-> ep, opt |-> opt, group |-> r.conv,
                                   sender |-> r.sender])]

Sent(msg) == [kind |-> msg.kind, to |-> msg.to, next |-> msg.next]

\* the catch that answers with the generic error message: the message is sent to
\* the chat of the inbound message, inside a try of its own
ErrorReply(r, errOk) ==
    IF errOk
      THEN Done([r EXCEPT !.out = Append(@, Sent(Msg("error", r.conv)))])
      ELSE LET failed == [r EXCEPT !.fail = @ \cup {"errsend"}] IN
           IF Catch(variant, "errsend") = "escape"
             THEN [Done(failed) EXCEPT !.esc = TRUE]
             ELSE Done(failed)

\* the handler after a failure at `where`; goOn: the handler if the failure is
\* caught and the handler continues
AfterFailure(r, where, goOn, errOk) ==
    LET outcome == Catch(variant, where) IN
    CASE outcome = "log"      -> Done(r)
      [] outcome = "reply"    -> ErrorReply(r, errOk)
      [] outcome = "continue" -> goOn
      [] outcome = "retry"    -> Request(r, r.ep, r.opt)
      [] outcome = "escape"   -> [Done(r) EXCEPT !.esc = TRUE]

\* the sends of todo, one after the other, each awaited.  failAt = 0: all are
\* delivered; failAt = i: the i-th send throws.  store: the pending_id the handler
\* stores if it gets past its sends.
Deliver(r, todo, failAt, errOk, store) ==
    LET n == Len(todo)
        sentTo(k) == [i \in 1 .. k |-> Sent(todo[i])]
        where == IF todo[failAt].guarded THEN "poll_send" ELSE "send"
        failed == [r EXCEPT !.out = sentTo(failAt - 1), !.fail = @ \cup {where}]
        rest == [i \in 1 .. (n - failAt) |-> Sent(todo[failAt + i])]
    IN
    IF failAt = 0
      THEN Done([r EXCEPT !.out = sentTo(n), !.store = store])
      ELSE AfterFailure(failed, where,
                        Done([failed EXCEPT !.out = @ \o rest, !.store = store]), errOk)

\* whatsapp-manager.js, this.clients.get(userId).sendMessage(...) of handler h: the
\* client is looked up when the send is made; without an entry the call throws a
\* TypeError, and a client that is not ready rejects the send
SendThrows(h) ==
    /\ variant = "manager"
    /\ \/ clients[h.user] = 0
       \/ transport[h.user].phase[clients[h.user]] # "ready"

\* the kinds of the questions among the messages of out delivered to c
QuestionsTo(out, c) ==
    LET q == SelectSeq(out, LAMBDA x : x.kind \in QuestionKinds /\ x.to = c) IN
    [i \in 1 .. Len(q) |-> q[i].kind]

Outstanding(p) == Len(p["g1"]) + Len(p["g2"]) + Len(p["d1"])

NoneDone == \A t \in Slots : slot[t].pc # "done"

\* the 'message' event: the handler runs up to its backend request
Arrive(s, m, mediaOk, errOk) ==
    LET base == [IdleSlot EXCEPT !.user = owner(m.conv), !.conv = m.conv, !.body = m.body, !.type = m.type,
                                 !.age = m.age, !.sender = m.sender,
                                 !.hadPending = pending[m.conv] # <<>>]
        text == messageText(m.body)
        route == Route(variant, m)
        copt == categoryOption(variant, text)
        vopt == validationOption(text)
        failed == [base EXCEPT !.fail = {"media"}]
        rr == CASE route \in {"drop_stale", "drop_not_group", "drop_poll"} ->
                     [Done(base) EXCEPT !.drop = route]
                [] route = "category" ->
                     IF copt = None THEN Done(base)
                     ELSE Request(base, "category-selection", copt)
                [] route = "validation" ->
                     IF vopt = None THEN Done(base) ELSE Request(base, "poll-vote", vopt)
                [] route = "message" ->
                     IF hasMedia(m.type) /\ ~mediaOk
                       THEN AfterFailure(failed, "media",
                                         Request(failed, "webhook", None), errOk)
                       ELSE Request(base, "webhook", None)
    IN
    /\ NoneDone
    /\ slot[s].pc = "idle"
    /\ \A t \in Slots : t < s => slot[t].pc # "idle"
    \* an input that is not read takes one value
    /\ mediaOk \/ (hasMedia(m.type) /\ route = "message")
    /\ errOk \/ (~mediaOk /\ Catch(variant, "media") = "reply")
    /\ slot' = [slot EXCEPT ![s] = rr]
    /\ UNCHANGED <<variant, pendingValidations, pending>>
    /\ UNCHANGED <<regVars, question>>

\* the backend answers 2xx: the handler reads the response and makes its sends
BackendRespond(s, r, failAt, errOk) ==
    LET h == slot[s]
        todo == Compose(variant, h.ep, r, h.conv)
        store == IF variant = "client" /\ h.ep = "webhook" THEN clientStorePending(r) ELSE None
        rr == Deliver([h EXCEPT !.next = (r @@ NoResponse).next_validation, !.resp = r @@ NoResponse],
                      todo, failAt, errOk, store)
        \* a choice the backend accepted answers the oldest outstanding question
        answered == IF h.ep # "webhook" /\ pending[h.conv] # <<>>
                      THEN [pending EXCEPT ![h.conv] = Tail(@)]
                      ELSE pending
    IN
    /\ NoneDone
    /\ h.pc = "awaitBackend"
    /\ failAt \in 0 .. Len(todo)
    /\ (SendThrows(h) /\ todo # <<>>) => failAt = 1
    /\ errOk \/ (failAt # 0 /\ Catch(variant, "send") = "reply" /\ ~todo[failAt].guarded)
    /\ pending' = [c \in Convs |-> answered[c] \o QuestionsTo(rr.out, c)]
    /\ Outstanding(pending') <= MaxPending
    /\ slot' = [slot EXCEPT ![s] = rr]
    \* this.pendingValidations[response.pending_id] = {groupId: chat.id._serialized, ...}
    /\ pendingValidations' = IF rr.store # None
                               THEN [pendingValidations EXCEPT ![rr.store] = h.conv]
                               ELSE pendingValidations
    /\ UNCHANGED variant
    /\ UNCHANGED <<regVars, question>>

RespondWebhook(s) ==
    /\ slot[s].ep = "webhook"
    /\ \E r \in WebhookResponses(variant), failAt \in 0 .. 1, errOk \in BOOLEAN :
         BackendRespond(s, r, failAt, errOk)

RespondChoice(s) ==
    /\ slot[s].ep \in {"category-selection", "poll-vote"}
    /\ \E r \in ChoiceResponses(variant, slot[s].ep, slot[s].conv),
          failAt \in 0 .. 3, errOk \in BOOLEAN :
         BackendRespond(s, r, failAt, errOk)

\* a handler that takes the outstanding question for answered when its request fails
BackendFail_consumes(s, errOk) ==
    LET h == slot[s]
        failed == [h EXCEPT !.fail = @ \cup {"backend"}]
        where == IF h.ep = "webhook" THEN "webhook" ELSE "choice"
    IN
    /\ NoneDone
    /\ h.pc = "awaitBackend"
    /\ errOk \/ Catch(variant, where) = "reply"
    /\ slot' = [slot EXCEPT ![s] = AfterFailure(failed, where, Done(failed), errOk)]
    /\ pending' = [pending EXCEPT ![h.conv] = IF @ = <<>> THEN @ ELSE Tail(@)]
    /\ UNCHANGED <<variant, pendingValidations>>
    /\ UNCHANGED <<regVars, question>>

\* a handler whose catch drops the client and the QR code of the user
BackendFail_evicts(s, errOk) ==
    LET h == slot[s]
        failed == [h EXCEPT !.fail = @ \cup {"backend"}]
        where == IF h.ep = "webhook" THEN "webhook" ELSE "choice"
    IN
    /\ NoneDone
    /\ h.pc = "awaitBackend"
    /\ errOk \/ Catch(variant, where) = "reply"
    /\ slot' = [slot EXCEPT ![s] = AfterFailure(failed, where, Done(failed), errOk)]
    /\ clients' = [clients EXCEPT ![h.user] = 0]
    /\ qrCodes' = [qrCodes EXCEPT ![h.user] = 0]
    /\ UNCHANGED <<variant, pendingValidations, pending, transport, question, shutdown>>

\* the backend request fails: timeout, non-2xx, no connection
BackendFail(s, errOk) ==
    LET h == slot[s]
        failed == [h EXCEPT !.fail = @ \cup {"backend"}]
        where == IF h.ep = "webhook" THEN "webhook" ELSE "choice"
    IN
    /\ NoneDone
    /\ h.pc = "awaitBackend"
    /\ errOk \/ Catch(variant, where) = "reply"
    /\ slot' = [slot EXCEPT ![s] = AfterFailure(failed, where, Done(failed), errOk)]
    /\ UNCHANGED <<variant, pendingValidations, pending>>
    /\ UNCHANGED <<regVars, question>>

\* the promise of a handler that has returned settles; its slot is free again
Return(s) ==
    /\ slot[s].pc = "done"
    /\ slot' = [slot EXCEPT ![s] = IdleSlot]
    /\ UNCHANGED <<variant, pendingValidations, pending>>
    /\ UNCHANGED <<regVars, question>>

\* a service that takes up no message while a backend request is outstanding
ArriveText_oneAtATime(s, m) ==
    /\ \A t \in Slots : slot[t].pc # "awaitBackend"
    /\ Arrive(s, m, TRUE, TRUE)

\* the 'message' event of a text message
ArriveText(s, m) == Arrive(s, m, TRUE, TRUE)

Next ==
    \E s \in Slots :
        \/ \E m \in Messages, mediaOk, errOk \in BOOLEAN : Arrive(s, m, mediaOk, errOk)
        \/ RespondWebhook(s)
        \/ RespondChoice(s)
        \/ \E errOk \in BOOLEAN : BackendFail(s, errOk)
        \/ Return(s)

Spec == InitServing /\ [][Next]_vars

-----------------------------------------------------------------------------
(* A backend that may never answer.  A request made with a timeout option  *)
(* is failed by axios when the time is up; a request made without one      *)
(* (axios' default is no timeout) waits as long as the backend is silent.  *)

\* whether the axios.post of version v to endpoint ep carries a timeout
HasTimeout(v, ep) ==
    CASE v = "manager" -> FALSE
      [] v \in {"relay", "relay2"} -> TRUE
      [] v = "client" -> ep = "webhook"

\* the timer of the request of slot s fires
Timeout(s) ==
    /\ HasTimeout(variant, slot[s].ep)
    /\ \E errOk \in BOOLEAN : BackendFail(s, errOk)

\* a timer that was set fires when its time is up, whatever the other handlers
\* do meanwhile, and a handler that has returned leaves its slot
SpecLive ==
    Spec /\ \A s \in Slots : SF_vars(Timeout(s)) /\ WF_vars(Return(s))

-----------------------------------------------------------------------------
(* The classification of replies: the handlers on every spelling of the    *)
(* reply tokens, from each state of the questions of the group, with a     *)
(* backend that is down.                                                   *)

ReplyMessages ==
    [conv : ConvsOfOne, body : ReplyBodies, type : {"chat"}, age : Ages, sender : ReplySenders]

\* the group has no question outstanding, or one of either kind; only the
\* versions that ask questions can have one
InitClassify ==
    /\ variant \in Variants
    /\ slot = [s \in Slots |-> IdleSlot]
    /\ pendingValidations = [p \in PendIds |-> None]
    /\ \E q \in {<<>>} \cup {<<k>> : k \in QuestionKinds} :
         /\ q # <<>> => variant \in {"manager", "client"}
         /\ pending = [c \in Convs |-> IF c = "g1" THEN q ELSE <<>>]
    /\ ServingRegistry
    /\ question = NoQuestion
    /\ shutdown = NoShutdown

NextClassify ==
    \E s \in Slots :
        \/ \E m \in ReplyMessages : ArriveText(s, m)
        \/ \E errOk \in BOOLEAN : BackendFail(s, errOk)
        \/ Return(s)

SpecClassify == InitClassify /\ [][NextClassify]_vars

-----------------------------------------------------------------------------
(* The registry of transport clients: WhatsAppManager.clients and .qrCodes *)
(* of whatsapp-manager.js ("manager"), part_000 ("relay") and part_001     *)
(* ("relay2"), driven by the HTTP endpoints of part_002 and by the events  *)
(* of the transport.  A client is named by the number of its creation.     *)

Managers == {"manager", "relay", "relay2"}

\* a version whose 'disconnected' handler deletes the entries of the user
DeletesOnDisconnect(v) == v \in {"manager", "relay"}

\* a version whose 'disconnected' handler discards the QR code: those, and
\* whatsapp-client.js (this.qrCode = null)
DiscardsQrOnDisconnect(v) == DeletesOnDisconnect(v) \/ v = "client"

\* a client whose has() finds nothing
has_nothing(map, u) == FALSE

\* this.clients.has(userId)
has(map, u) == map[u] # 0

\* Map.prototype.delete
delete(map, u) == [map EXCEPT ![u] = 0]

\* the phases in which the transport still signals events for a client
LivePhases == {"initializing", "pairing", "authenticated", "ready", "auth_failure"}

\* getStatus: what the service reports for the user
getStatus(u) ==
    IF ~has(clients, u) THEN "not_initialized"
    ELSE IF transport[u].phase[clients[u]] = "ready" THEN "CONNECTED"
    ELSE "not_connected"

\* POST /initialize: getClient(userId) creates, registers and initializes a
\* client if the user has none, and returns the client of the user
getClient(u) ==
    LET id == transport[u].created + 1 IN
    /\ IF ~has(clients, u)
         THEN /\ id <= MaxClients
              /\ clients' = [clients EXCEPT ![u] = id]
              /\ transport' = [transport EXCEPT ![u].phase[id] = "initializing",
                                                ![u].created = id,
                                                ![u].returned = id,
                                                ![u].reused = FALSE]
         ELSE /\ clients' = clients
              /\ transport' = [transport EXCEPT ![u].returned = clients[u],
                                                ![u].reused = TRUE]
    /\ UNCHANGED qrCodes
    /\ UNCHANGED <<msgVars, question, shutdown>>

\* client.on('qr') of client k of u: the handler starts qrcode.toDataURL and awaits it
OnQr(u, k) ==
    /\ transport[u].phase[k] \in {"initializing", "pairing"}
    /\ k \notin transport[u].qrGen
    /\ transport' = [transport EXCEPT ![u].phase[k] = "pairing", ![u].qrGen = @ \cup {k}]
    /\ UNCHANGED <<clients, qrCodes>>
    /\ UNCHANGED <<msgVars, question, shutdown>>

\* qrcode.toDataURL settles: this.qrCodes.set(userId, ...); part_001 stores the
\* raw code when the conversion fails, the other versions store nothing
QrGenerated(u, k, ok) ==
    /\ k \in transport[u].qrGen
    /\ qrCodes' = IF ok \/ variant = "relay2" THEN [qrCodes EXCEPT ![u] = k] ELSE qrCodes
    /\ transport' = [transport EXCEPT ![u].qrGen = @ \ {k}]
    /\ UNCHANGED clients
    /\ UNCHANGED <<msgVars, question, shutdown>>

\* client.on('authenticated'): logs; part_001 also deletes the QR code
OnAuthenticated(u, k) ==
    /\ transport[u].phase[k] \in {"initializing", "pairing"}
    /\ transport' = [transport EXCEPT ![u].phase[k] = "authenticated"]
    /\ qrCodes' = IF variant = "relay2" THEN delete(qrCodes, u) ELSE qrCodes
    /\ UNCHANGED clients
    /\ UNCHANGED <<msgVars, question, shutdown>>

\* client.on('ready'): this.qrCodes.delete(userId)
OnReady(u, k) ==
    /\ transport[u].phase[k] = "authenticated"
    /\ transport' = [transport EXCEPT ![u].phase[k] = "ready"]
    /\ qrCodes' = delete(qrCodes, u)
    /\ UNCHANGED clients
    /\ UNCHANGED <<msgVars, question, shutdown>>

\* client.on('auth_failure'): every version only logs
OnAuthFailure(u, k) ==
    /\ transport[u].phase[k] \in {"initializing", "pairing"}
    /\ transport' = [transport EXCEPT ![u].phase[k] = "auth_failure"]
    /\ UNCHANGED <<clients, qrCodes>>
    /\ UNCHANGED <<msgVars, question, shutdown>>

\* a 'disconnected' handler that empties the two maps
OnDisconnected_clears(u, k) ==
    /\ transport[u].phase[k] \in {"pairing", "authenticated", "ready", "auth_failure"}
    /\ transport' = [transport EXCEPT ![u].phase[k] = "disconnected"]
    /\ clients' = [v \in Users |-> 0]
    /\ qrCodes' = [v \in Users |-> 0]
    /\ UNCHANGED <<msgVars, question, shutdown>>

\* client.on('disconnected'): whatsapp-manager.js and part_000 delete the entries
\* of the user, part_001 only logs
OnDisconnected(u, k) ==
    /\ transport[u].phase[k] \in {"pairing", "authenticated", "ready", "auth_failure"}
    /\ transport' = [transport EXCEPT ![u].phase[k] = "disconnected"]
    /\ clients' = IF DeletesOnDisconnect(variant) THEN delete(clients, u) ELSE clients
    /\ qrCodes' = IF DiscardsQrOnDisconnect(variant) THEN delete(qrCodes, u) ELSE qrCodes
    /\ UNCHANGED <<msgVars, question, shutdown>>

\* POST /logout/:userId: logout(userId) up to await client.logout(); without a
\* client of the user it returns at once and the request is answered 200
logout(u) ==
    /\ transport[u].loggingOut = 0
    /\ transport' = IF has(clients, u)
                      THEN [transport EXCEPT ![u].loggingOut = clients[u], ![u].answer = 0]
                      ELSE [transport EXCEPT ![u].answer = 200]
    /\ UNCHANGED <<clients, qrCodes>>
    /\ UNCHANGED <<msgVars, question, shutdown>>

\* a logout that deletes the entries of the user whether client.logout() fails or not
logoutSettled_finally(u, ok) ==
    LET k == transport[u].loggingOut IN
    /\ k # 0
    /\ transport' = [transport EXCEPT ![u].loggingOut = 0,
                                      ![u].answer = IF ok THEN 200 ELSE 500,
                                      ![u].phase[k] = IF ok /\ @ \in LivePhases
                                                        THEN "logged_out" ELSE @]
    /\ clients' = delete(clients, u)
    /\ qrCodes' = delete(qrCodes, u)
    /\ UNCHANGED <<msgVars, question, shutdown>>

\* client.logout() settles (in part_001, client.destroy() after it).  ok: it
\* resolves, the entries of the user are deleted and the request is answered
\* 200; otherwise it throws, the deletes are skipped and the catch of
\* POST /logout/:userId answers 500
logoutSettled(u, ok) ==
    LET k == transport[u].loggingOut IN
    /\ k # 0
    /\ transport' = [transport EXCEPT ![u].loggingOut = 0,
                                      ![u].answer = IF ok THEN 200 ELSE 500,
                                      ![u].phase[k] = IF ok /\ @ \in LivePhases
                                                        THEN "logged_out" ELSE @]
    /\ clients' = IF ok THEN delete(clients, u) ELSE clients
    /\ qrCodes' = IF ok THEN delete(qrCodes, u) ELSE qrCodes
    /\ UNCHANGED <<msgVars, question, shutdown>>

InitManagers == Init /\ variant \in Managers

\* the operations on a user and the events of the clients made for it
UserStep(u) ==
    \/ getClient(u)
    \/ logout(u)
    \/ \E ok \in BOOLEAN : logoutSettled(u, ok)
    \/ \E k \in 1 .. MaxClients :
          \/ OnQr(u, k)
          \/ \E ok \in BOOLEAN : QrGenerated(u, k, ok)
          \/ OnAuthenticated(u, k)
          \/ OnReady(u, k)
          \/ OnAuthFailure(u, k)
          \/ OnDisconnected(u, k)

\* the registry with one user
NextRegistry == UserStep("t1")

SpecRegistry == InitManagers /\ [][NextRegistry]_vars

-----------------------------------------------------------------------------
(* Two users side by side (whatsapp-manager.js): each is initialized once, *)
(* the transport signals the events of its client, and the client of a     *)
(* user that is ready delivers the messages of the group of that user, one *)
(* handler running at a time.                                              *)

TenantMessages ==
    [conv : {"g1", "g2"}, body : {"boleto R$200"}, type : {"chat"}, age : {60000},
     sender : Senders]

\* the 'message' event of client k of user u
OnMessage(u, k, s, m) ==
    /\ transport[u].phase[k] = "ready"
    /\ owner(m.conv) = u
    /\ ArriveText(s, m)

\* POST /initialize for a user that was not initialized before
Initialize(u) == transport[u].created = 0 /\ getClient(u)

TenantStep(u) ==
    \/ Initialize(u)
    \/ logout(u)
    \/ \E ok \in BOOLEAN : logoutSettled(u, ok)
    \/ \E k \in 1 .. MaxClients :
          \/ OnQr(u, k)
          \/ \E ok \in BOOLEAN : QrGenerated(u, k, ok)
          \/ OnAuthenticated(u, k)
          \/ OnReady(u, k)
          \/ OnAuthFailure(u, k)
          \/ OnDisconnected(u, k)
          \* a message of a chat with no question outstanding
          \/ \E m \in TenantMessages : pending[m.conv] = <<>> /\ OnMessage(u, k, 1, m)

InitTenants == Init /\ variant = "manager"

NextTenants ==
    \/ \E u \in Users : TenantStep(u)
    \/ RespondWebhook(1)
    \/ \E errOk \in BOOLEAN : BackendFail(1, errOk)
    \/ Return(1)

SpecTenants == InitTenants /\ [][NextTenants]_vars

-----------------------------------------------------------------------------
(* One user of whatsapp-manager.js whose messages meet failures: the media *)
(* download, the backend request and the sends can each fail.              *)

FailureMessages ==
    {m \in [conv : {"g1"}, body : {"boleto R$200", "sim"}, type : Types, age : {60000},
            sender : Senders] :
        hasMedia(m.type) => m.body = "boleto R$200"}

\* the 'message' event of client k of user u, with the outcome of downloadMedia
OnMessageMedia(u, k, s, m, mediaOk) ==
    /\ transport[u].phase[k] = "ready"
    /\ owner(m.conv) = u
    /\ Arrive(s, m, mediaOk, TRUE)

NextFailures ==
    \/ TenantStep("t1")
    \/ \E k \in 1 .. MaxClients, m \in FailureMessages, mediaOk \in BOOLEAN :
          OnMessageMedia("t1", k, 1, m, mediaOk)
    \/ RespondWebhook(1)
    \/ RespondChoice(1)
    \/ \E errOk \in BOOLEAN : BackendFail(1, errOk)
    \/ Return(1)

SpecFailures == InitTenants /\ [][NextFailures]_vars

-----------------------------------------------------------------------------
(* One user of whatsapp-manager.js whose session is evicted and made anew  *)
(* while a handler of a message of its first client awaits the backend.    *)

NextEviction ==
    \/ UserStep("t1")
    \/ \E m \in TenantMessages : pending[m.conv] = <<>> /\ OnMessage("t1", 1, 1, m)
    \/ RespondWebhook(1)
    \/ \E errOk \in BOOLEAN : BackendFail(1, errOk)
    \/ Return(1)

SpecEviction == InitTenants /\ [][NextEviction]_vars

-----------------------------------------------------------------------------
(* The GET endpoints of part_002 on one user of whatsapp-manager.js, next  *)
(* to the operations and events of the registry.                           *)

\* GET /status/:userId: getStatus(userId)
StatusQuery(u) ==
    /\ transport' = [transport EXCEPT ![u].query =
                        [NoQuery EXCEPT !.op = "status", !.code = 200,
                                        !.connected = getStatus(u) = "CONNECTED",
                                        !.hasQR = has(clients, u) /\ has(qrCodes, u),
                                        !.client_state = getStatus(u)]]
    /\ UNCHANGED <<clients, qrCodes>>
    /\ UNCHANGED <<msgVars, question, shutdown>>

\* GET /qr/:userId: getQRCode(userId), this.qrCodes.get(userId) || null
QrQuery(u) ==
    /\ transport' = [transport EXCEPT ![u].query =
                        [NoQuery EXCEPT !.op = "qr", !.code = 200, !.qr = qrCodes[u]]]
    /\ UNCHANGED <<clients, qrCodes>>
    /\ UNCHANGED <<msgVars, question, shutdown>>

\* GET /groups/:userId: getGroups(userId) throws without a client of the user, and
\* the catch of the endpoint answers 500
GroupsQuery(u) ==
    /\ transport' = [transport EXCEPT ![u].query =
                        [NoQuery EXCEPT !.op = "groups",
                                        !.code = IF has(clients, u) THEN 200 ELSE 500]]
    /\ UNCHANGED <<clients, qrCodes>>
    /\ UNCHANGED <<msgVars, question, shutdown>>

NextQueries ==
    \/ UserStep("t1")
    \/ StatusQuery("t1")
    \/ QrQuery("t1")
    \/ GroupsQuery("t1")

SpecQueries == InitTenants /\ [][NextQueries]_vars

-----------------------------------------------------------------------------
(* POST /initialize of part_002 on one user of whatsapp-manager.js.  The   *)
(* handler calls getClient and getStatus, which awaits client.getState();  *)
(* it reads the QR code and answers when that settles.  A request that     *)
(* names no user is recorded with every user.                              *)

\* a POST /initialize that makes a new client whether the user has one or not
PostInitialize_always(u) ==
    LET id == transport[u].created + 1 IN
    /\ id <= MaxClients
    /\ clients' = [clients EXCEPT ![u] = id]
    /\ transport' = [transport EXCEPT
                        ![u].phase[id] = "initializing", ![u].created = id,
                        ![u].returned = id, ![u].reused = FALSE,
                        ![u].query = [NoQuery EXCEPT !.op = "initialize",
                                                     !.client_state = "initializing"]]
    /\ UNCHANGED qrCodes
    /\ UNCHANGED <<msgVars, question, shutdown>>

\* POST /initialize with a userId, up to the await in getStatus: getClient(userId),
\* then client.getState(), which throws for a client that is not up yet
\* ('initializing') and reports the state of the session otherwise
PostInitialize(u) ==
    LET id == transport[u].created + 1
        q(state) == [NoQuery EXCEPT !.op = "initialize", !.client_state = state]
    IN
    /\ IF ~has(clients, u)
         THEN /\ id <= MaxClients
              /\ clients' = [clients EXCEPT ![u] = id]
              /\ transport' = [transport EXCEPT
                                  ![u].phase[id] = "initializing", ![u].created = id,
                                  ![u].returned = id, ![u].reused = FALSE,
                                  ![u].query = q("initializing")]
         ELSE /\ clients' = clients
              /\ transport' = [transport EXCEPT
                                  ![u].returned = clients[u], ![u].reused = TRUE,
                                  ![u].query = q(getStatus(u))]
    /\ UNCHANGED qrCodes
    /\ UNCHANGED <<msgVars, question, shutdown>>

\* getState() has settled: getStatus reads this.qrCodes.has(userId), the handler
\* reads getQRCode(userId) and answers { status, qr }
InitializeAnswered(u) ==
    LET q == transport[u].query IN
    /\ q.op = "initialize" /\ q.code = 0
    /\ transport' = [transport EXCEPT ![u].query =
                        [q EXCEPT !.code = 200,
                                  !.connected = q.client_state = "CONNECTED",
                                  !.hasQR = has(qrCodes, u),
                                  !.qr = qrCodes[u]]]
    /\ UNCHANGED <<clients, qrCodes>>
    /\ UNCHANGED <<msgVars, question, shutdown>>

\* POST /initialize without a userId: 400 { error: 'userId is required' }
PostInitializeNoUser ==
    /\ transport' = [u \in Users |->
                        [transport[u] EXCEPT !.query =
                            [NoQuery EXCEPT !.op = "initialize", !.code = 400]]]
    /\ UNCHANGED <<clients, qrCodes>>
    /\ UNCHANGED <<msgVars, question, shutdown>>

NextInitialize ==
    \/ PostInitializeNoUser
    \/ PostInitialize("t1")
    \/ InitializeAnswered("t1")
    \/ logout("t1")
    \/ \E ok \in BOOLEAN : logoutSettled("t1", ok)
    \/ \E k \in 1 .. MaxClients :
          \/ OnQr("t1", k)
          \/ \E ok \in BOOLEAN : QrGenerated("t1", k, ok)
          \/ OnAuthenticated("t1", k)
          \/ OnReady("t1", k)
          \/ OnAuthFailure("t1", k)
          \/ OnDisconnected("t1", k)

SpecInitialize == InitTenants /\ [][NextInitialize]_vars

-----------------------------------------------------------------------------
(* Shutdown: the SIGINT handler of part_002 awaits whatsappManager.destroy() *)
(* and exits.  Only part_001 defines destroy(); on the managers of           *)
(* whatsapp-manager.js and part_000 the call throws a TypeError, the handler *)
(* rejects and process.exit(0) is not reached.  Each user is initialized     *)
(* once; the process serves requests and events until it exits.              *)

HasDestroy(v) == v = "relay2"

\* destroy() at the head of its loop over this.clients.entries(): it awaits
\* client.destroy() of the next entry, or, past the last entry, clears both maps,
\* and the handler exits the process
LoopHead(visited, failed) ==
    \/ \E u \in Users :
          /\ clients[u] # 0 /\ u \notin visited
          /\ shutdown' = [pc |-> "destroying", current |-> u, visited |-> visited,
                          failed |-> failed]
          /\ UNCHANGED <<clients, qrCodes>>
    \/ /\ \A u \in Users : clients[u] = 0 \/ u \in visited
       /\ shutdown' = [pc |-> "exited", current |-> None, visited |-> visited,
                       failed |-> failed]
       /\ clients' = [u \in Users |-> 0]
       /\ qrCodes' = [u \in Users |-> 0]

\* SIGINT
Sigint ==
    /\ shutdown.pc = "serving"
    /\ IF HasDestroy(variant)
         THEN LoopHead({}, {})
         ELSE /\ shutdown' = [shutdown EXCEPT !.pc = "failed"]
              /\ UNCHANGED <<clients, qrCodes>>
    /\ UNCHANGED transport
    /\ UNCHANGED <<msgVars, question>>

\* client.destroy() of the current entry settles: resolved or thrown (caught and
\* logged inside the loop), the loop goes on
DestroySettled(ok) ==
    LET u == shutdown.current IN
    /\ shutdown.pc = "destroying"
    /\ transport' = [transport EXCEPT ![u].phase[clients[u]] =
                                          IF ok THEN "destroyed" ELSE @]
    /\ LoopHead(shutdown.visited \cup {u},
                shutdown.failed \cup (IF ok THEN {} ELSE {u}))
    /\ UNCHANGED <<msgVars, question>>

\* what the process does while it runs
Serve(u) ==
    /\ shutdown.pc \in {"serving", "destroying"}
    /\ \/ Initialize(u)
       \/ \E k \in 1 .. MaxClients :
             \/ OnQr(u, k)
             \/ \E ok \in BOOLEAN : QrGenerated(u, k, ok)
             \/ OnAuthenticated(u, k)
             \/ OnReady(u, k)
             \/ OnDisconnected(u, k)

NextShutdown ==
    \/ \E u \in Users : Serve(u)
    \/ Sigint
    \/ \E ok \in BOOLEAN : DestroySettled(ok)

SpecShutdown == InitManagers /\ [][NextShutdown]_vars

-----------------------------------------------------------------------------
(* The session of WhatsAppClient (whatsapp-client.js), which serves one    *)
(* user: this.client is clients["t1"], this.qrCode is qrCodes["t1"], and   *)
(* this.isReady holds while the client is in phase "ready".  The client    *)
(* that is ready delivers the messages of the group, one handler running   *)
(* at a time.                                                              *)

SessionMessages ==
    [conv : {"g1"}, body : {"boleto R$200", "sim"}, type : {"chat"}, age : {60000},
     sender : Senders]

\* WhatsAppClient.initialize: this.client = new Client(...), whether there is one or not
initialize(u) ==
    LET id == transport[u].created + 1 IN
    /\ id <= MaxClients
    /\ clients' = [clients EXCEPT ![u] = id]
    /\ transport' = [transport EXCEPT ![u].phase[id] = "initializing",
                                      ![u].created = id]
    /\ UNCHANGED qrCodes
    /\ UNCHANGED <<msgVars, question, shutdown>>

InitSession == Init /\ variant = "client"

NextSession ==
    \/ initialize("t1")
    \/ \E k \in 1 .. MaxClients :
          \/ OnAuthenticated("t1", k)
          \/ OnReady("t1", k)
          \/ OnDisconnected("t1", k)
          \/ \E m \in SessionMessages : OnMessage("t1", k, 1, m)
    \/ RespondWebhook(1)
    \/ RespondChoice(1)
    \/ \E errOk \in BOOLEAN : BackendFail(1, errOk)
    \/ Return(1)

SpecSession == InitSession /\ [][NextSession]_vars

-----------------------------------------------------------------------------
(* The text of the questions.  A message is the sequence of its lines; a   *)
(* line is the field of processed_info it shows ("fixed" for a line of the *)
(* template, "instruction" for a line that names a reply, "custom" for a   *)
(* text the backend supplied) and its text.  A field the backend left out  *)
(* is None, which JavaScript takes for false.                              *)

Fields == {"tipo_documento", "valor", "data", "descricao", "pagador"}

\* response.data.processed_info
Infos ==
    [tipo_documento : {None, "boleto"}, valor : {None, "R$200"}, data : {None, "05/11"},
     descricao : {None, "cimento"}, pagador : {None, "Joao"}]

Line(field, text) == [field |-> field, text |-> text]

\* `${label}${value || placeholder}\n`
OrElse(value, placeholder) == IF value # None THEN value ELSE placeholder

\* if (value) message += ...
IfPresent(field, value) == IF value # None THEN <<Line(field, value)>> ELSE <<>>

\* whatsapp-manager.js, handleMessage: the category question
categoryMessage(info, message) ==
    IF message # None THEN <<Line("custom", message)>>
    ELSE <<Line("fixed", "CATEGORIA AMBIGUA"),
           Line("tipo_documento", OrElse(info.tipo_documento, "não identificado")),
           Line("valor", OrElse(info.valor, "N/A")),
           Line("data", OrElse(info.data, "N/A"))>>
         \o IfPresent("descricao", info.descricao)
         \o IfPresent("pagador", info.pagador)
         \o <<Line("fixed", "Por favor, escolha a categoria:"),
              Line("instruction", "material"),
              Line("instruction", "mao de obra")>>

\* whatsapp-manager.js, handleMessage: the validation question
validationMessage(info) ==
    <<Line("fixed", "VALIDACAO PENDENTE"),
      Line("tipo_documento", OrElse(info.tipo_documento, "não identificado")),
      Line("valor", OrElse(info.valor, "N/A")),
      Line("data", OrElse(info.data, "N/A")),
      Line("descricao", OrElse(info.descricao, "Sem descrição")),
      Line("fixed", "Para autorizar o lançamento, responda:"),
      Line("instruction", "sim"),
      Line("instruction", "não"),
      Line("instruction", "editar")>>

\* whatsapp-client.js, sendCategoryPoll
sendCategoryPoll(info) ==
    <<Line("fixed", "DEFINIR CATEGORIA"), Line("fixed", "DADOS DETECTADOS:")>>
    \o IfPresent("tipo_documento", info.tipo_documento)
    \o IfPresent("valor", info.valor)
    \o IfPresent("data", info.data)
    \o IfPresent("descricao", info.descricao)
    \o IfPresent("pagador", info.pagador)
    \o <<Line("fixed", "Por favor, escolha a categoria:"),
         Line("instruction", "material"),
         Line("instruction", "mao de obra")>>

Templates == {"categoryMessage", "validationMessage", "sendCategoryPoll"}

\* the replies a question of the template must name
Instructions(t) ==
    IF t = "validationMessage" THEN <<"sim", "não", "editar">>
    ELSE <<"material", "mao de obra">>

\* a response that asks for a question, with or without a text of the backend's
\* (only handleMessage's category question reads response.data.message)
InitTemplates ==
    /\ question \in [template : Templates, info : Infos, message : {None, "Qual categoria?"},
                     lines : {<<>>}]
    /\ question.message # None => question.template = "categoryMessage"
    /\ variant = IF question.template = "sendCategoryPoll" THEN "client" ELSE "manager"
    /\ slot = [s \in Slots |-> IdleSlot]
    /\ pendingValidations = [p \in PendIds |-> None]
    /\ pending = [c \in Convs |-> <<>>]
    /\ InitRegistry
    /\ shutdown = NoShutdown

\* the handler composes the message
ComposeQuestion ==
    /\ question.lines = <<>>
    /\ question' =
         [question EXCEPT !.lines =
             CASE question.template = "categoryMessage" ->
                    categoryMessage(question.info, question.message)
               [] question.template = "validationMessage" ->
                    validationMessage(question.info)
               [] question.template = "sendCategoryPoll" ->
                    sendCategoryPoll(question.info)]
    /\ UNCHANGED <<msgVars, regVars>>

SpecTemplates == InitTemplates /\ [][ComposeQuestion]_vars

-----------------------------------------------------------------------------
(* Messages of several chats and users side by side: the groups of the two *)
(* users and the direct chat, in whatsapp-manager.js and in part_001,      *)
(* which filters nothing.                                                  *)

ParallelMessages ==
    [conv : Convs, body : {"boleto R$200"}, type : {"chat"}, age : {60000},
     sender : Senders]

InitParallel == InitServing /\ variant \in {"manager", "relay2"}

NextParallel ==
    \E s \in Slots :
        \/ \E m \in ParallelMessages : ArriveText(s, m)
        \/ RespondWebhook(s)
        \/ \E errOk \in BOOLEAN : BackendFail(s, errOk)
        \/ Return(s)

SpecParallel == InitParallel /\ [][NextParallel]_vars

-----------------------------------------------------------------------------
(* Properties *)

Handlers == {slot[s] : s \in Slots}
ChoiceEndpoints == {"category-selection", "poll-vote"}

\* the generic error messages a handler sent to the chat of its inbound message
ErrorsTo(h) == Len(SelectSeq(h.out, LAMBDA x : x.kind = "error" /\ x.to = h.conv))

\* C1: every conversation has at most one question sent to the chat and not yet
\* answered: when the backend answers a new item with an ask directive while a
\* question is outstanding in the conversation, the new question is not sent,
\* so a handler that has asked for a new item leaves one question outstanding
C1_AtMostOnePending ==
    \A h \in Handlers :
        (/\ h.pc = "done"
         /\ h.calls # <<>> /\ h.calls[1].ep = "webhook"
         /\ QuestionsTo(h.out, h.conv) # <<>>)
            => Len(pending[h.conv]) = 1

\* C2: a message is submitted to the backend as a choice (/category-selection or
\* /poll-vote) only if a question was outstanding in its conversation when the
\* message was classified
C2_ChoiceOnlyWhenPending ==
    \A h \in Handlers :
        \A i \in 1 .. Len(h.calls) :
            h.calls[i].ep \in ChoiceEndpoints => h.hadPending

\* C3: handling a message that is more than 60 seconds old makes no backend call
\* and sends no outbound message (handlers of whatsapp-manager.js, part_000 and
\* whatsapp-client.js)
C3_StaleDropped ==
    variant \in {"manager", "relay", "client"} =>
        \A h \in Handlers :
            h.age > 60000 => (h.calls = <<>> /\ h.out = <<>>)

\* C4: handling a message of a conversation that is not a group makes no backend
\* call and sends no outbound message
C4_NotGroupDropped ==
    \A h \in Handlers :
        ~isGroup(h.conv) => (h.calls = <<>> /\ h.out = <<>>)

\* C5: a handler whose backend call failed has sent exactly one generic error
\* message to the conversation of its message, unless the send of that message
\* failed (handlers of whatsapp-manager.js and part_000)
C5_OneErrorMessage ==
    variant \in {"manager", "relay"} =>
        \A h \in Handlers :
            (h.pc = "done" /\ "backend" \in h.fail /\ "errsend" \notin h.fail)
                => ErrorsTo(h) = 1

\* C6: no failure of the message path (backend call, media download, outbound
\* send, send of the error message) leaves the event handler as an exception
C6_NoFailureEscapes ==
    \A h \in Handlers : ~h.esc

\* a handler has returned after a failed backend call and a failed error reply
C6_Witness ==
    \E h \in Handlers :
        h.pc = "done" /\ {"backend", "errsend"} \subseteq h.fail /\ ~h.esc

\* C7: handling one message issues at most one backend request, and a handler
\* whose request failed does not await a request again
C7_AtMostOneRequest ==
    \A h \in Handlers :
        /\ Len(h.calls) <= 1
        /\ "backend" \in h.fail => h.pc # "awaitBackend"

\* a handler of the unified version has returned after its one request failed
C7_Witness ==
    \E h \in Handlers :
        /\ variant = "manager"
        /\ h.pc = "done" /\ "backend" \in h.fail /\ Len(h.calls) = 1

\* C8: two messages of one conversation are never in handling together: while
\* the backend call of one is outstanding, no other message of the conversation
\* has a backend call outstanding
C8_OneAtATime ==
    \A s, t \in Slots :
        (s # t /\ slot[s].pc = "awaitBackend" /\ slot[t].pc = "awaitBackend")
            => slot[s].conv # slot[t].conv

\* C9: no queued interaction is skipped: a handler of the unified version that
\* answered an outstanding question, received the queued follow-up
\* (next_validation) with the response and met no failure, has presented that
\* follow-up to the chat
C9_NextNotSkipped ==
    variant = "manager" =>
        \A h \in Handlers :
            (h.pc = "done" /\ h.hadPending /\ h.next # None /\ h.fail = {})
                => \E i \in 1 .. Len(h.out) : h.out[i].next

\* C10: a pending validation is stored for a conversation only when the
\* conversation has none active: no handler has stored one while another stored
\* validation of the conversation still had its question outstanding
C10_StoreOnlyWhenEmpty ==
    \A h \in Handlers :
        (h.pc = "done" /\ h.store # None)
            => ~ /\ Len(pending[h.conv]) >= 2
                 /\ \E p \in PendIds \ {h.store} : pendingValidations[p] = h.conv

\* the reply tokens
ReplyTokens == {"sim", "não", "nao", "editar", "material", "mao de obra", "mão de obra"}

\* removal of the diacritics, on the bodies of the model
fold(s) ==
    CASE s \in {"não", "nâo"} -> "nao"
      [] s = "mão de obra" -> "mao de obra"
      [] OTHER -> s

\* a text after trimming, lowercasing and removal of the diacritics
Normalized(body) == fold(toLowerCase(trim(body)))

\* the endpoint and option a handler submitted, None if it submitted nothing
Submission(h) ==
    IF h.calls = <<>> THEN <<None, None>> ELSE <<h.calls[1].ep, h.calls[1].opt>>

Fresh(h) == h.pc # "idle" /\ h.age <= 60000 /\ isGroup(h.conv)

\* C11: two fresh replies in a group whose texts differ only in letter case,
\* surrounding whitespace or diacritics from the same reply token are submitted
\* to the same endpoint with the same option code (unified handler)
C11_SameOptionForSpellings ==
    variant = "manager" =>
        \A h1, h2 \in Handlers :
            (/\ Fresh(h1) /\ Fresh(h2)
             /\ Normalized(h1.body) = Normalized(h2.body)
             /\ Normalized(h1.body) \in {fold(t) : t \in ReplyTokens})
                => Submission(h1) = Submission(h2)

\* the option code and the endpoint of each reply token, and the kind of question
\* the token answers
TokenOption(t) ==
    CASE t \in {"sim", "material"} -> "0"
      [] t \in {"não", "nao", "mao de obra", "mão de obra"} -> "1"
      [] t = "editar" -> "2"
TokenEndpoint(t) ==
    IF t \in {"sim", "não", "nao", "editar"} THEN "poll-vote" ELSE "category-selection"
TokenKind(t) ==
    IF t \in {"sim", "não", "nao", "editar"} THEN "validation_question"
    ELSE "category_question"

\* C12: a fresh reply in a group whose text is a reply token of the question
\* outstanding in the group makes exactly one submission: to the endpoint of the
\* question's kind, with the option code of the token, the group and the sender
\* of the reply
C12_ReplySubmitsItsOption ==
    variant \in {"manager", "client"} =>
        \A h \in Handlers :
            (/\ Fresh(h)
             /\ h.body \in ReplyTokens
             /\ pending[h.conv] = <<TokenKind(h.body)>>)
                => h.calls = <<[ep |-> TokenEndpoint(h.body), opt |-> TokenOption(h.body),
                                group |-> h.conv, sender |-> h.sender]>>

\* 'nao' by the second sender has been submitted as a rejection of the
\* outstanding validation question
C12_Witness ==
    \E h \in Handlers :
        /\ variant = "manager" /\ Fresh(h)
        /\ h.body = "nao" /\ h.sender = "u2"
        /\ pending[h.conv] = <<"validation_question">>
        /\ Len(h.calls) = 1 /\ h.calls[1].opt = "1"

Kinds(out) == {out[i].kind : i \in 1 .. Len(out)}

\* the handler has returned, without a failure, after the response to its request to ep
Answered(h, ep) ==
    h.pc = "done" /\ h.fail = {} /\ h.calls # <<>> /\ h.calls[1].ep = ep

\* C13: a handler whose vote was answered with a confirmation and nothing else
\* (no manual-edit request, no follow-up) has sent exactly one message, the
\* confirmation, to the conversation of the reply
C13_ConfirmToReplyConversation ==
    variant \in {"manager", "client"} =>
        \A h \in Handlers :
            (/\ Answered(h, "poll-vote")
             /\ h.resp.status = "ok" /\ h.resp.send_confirmation
             /\ ~h.resp.send_message /\ h.resp.next_validation = None)
                => h.out = <<Sent(Msg("confirm", h.conv))>>

\* C14: a handler of a non-token text message that arrived in a group with no
\* question outstanding and was answered with the category ask has sent exactly
\* one message, the category question, to the group, and the group then has
\* exactly one question outstanding, the category question
C14_AskCategoryOnce ==
    variant \in {"manager", "client"} =>
        \A h \in Handlers :
            (/\ Answered(h, "webhook") /\ ~h.hadPending
             /\ h.type = "chat" /\ h.body = "boleto R$200"
             /\ h.resp.status = "needs_category_selection" /\ h.resp.processed_info)
                => /\ h.out = <<Sent(Msg("category_question", h.conv))>>
                   /\ pending[h.conv] = <<"category_question">>

C16_FollowUpSentLast ==
    variant = "manager" =>
        \A h \in Handlers :
            (/\ Answered(h, "poll-vote") \/ Answered(h, "category-selection")
             /\ h.resp.next_validation # None /\ ~h.resp.send_validation_poll)
                => /\ h.out # <<>>
                   /\ h.out[Len(h.out)] =
                          Sent(NextQuestion(h.resp.next_validation, h.conv))
                   /\ \A i \in 1 .. Len(h.out) - 1 : ~h.out[i].next

\* C17: a fresh group message whose normalized text is no reply token is
\* forwarded to the backend as a new item: its handler has made exactly one
\* submission, to /webhook, whether or not a question was outstanding
\* (unified handler)
C17_NoMatchForwarded ==
    variant = "manager" =>
        \A h \in Handlers :
            (Fresh(h) /\ Normalized(h.body) \notin {fold(t) : t \in ReplyTokens})
                => (Len(h.calls) = 1 /\ h.calls[1].ep = "webhook")

\* C18: the registry holds at most one client per user: a client is created (and
\* initialized) only in a step in which the registry has no client of the user,
\* and it becomes the client of the user; a getClient that finds a client of the
\* user returns that client and creates none; the registered client is one that
\* was made for the user
C18_OneClientPerUser ==
    [][\A u \in Users :
          /\ transport'[u].created # transport[u].created
                => /\ clients[u] = 0
                   /\ transport'[u].created = transport[u].created + 1
                   /\ clients'[u] = transport'[u].created
                   /\ transport'[u].returned = clients'[u]
          /\ (clients[u] # 0 /\ ~transport[u].reused /\ transport'[u].reused)
                => /\ transport'[u].returned = clients[u]
                   /\ clients'[u] = clients[u]
                   /\ transport'[u].created = transport[u].created
          /\ clients'[u] <= transport'[u].created]_vars

\* a second getClient of a user found the client the first one made, after that
\* client had gone on to be ready
C18_Witness ==
    \E u \in Users :
        /\ transport[u].reused
        /\ transport[u].created = 1
        /\ transport[u].returned = 1
        /\ clients[u] = 1
        /\ transport[u].phase[1] = "ready"

\* C19: once the last client made for a user is disconnected or logged out, the
\* user has no client and no QR code in the registry and the status reported is
\* 'not_initialized' (in the versions the claim cites)
C19_DisconnectEvicts ==
    variant \in {"manager", "relay2"} =>
        \A u \in Users :
            LET k == transport[u].created IN
            (k # 0 /\ transport[u].phase[k] \in {"disconnected", "logged_out"}
                   /\ transport[u].qrGen = {} /\ transport[u].loggingOut = 0)
                => /\ ~has(clients, u)
                   /\ ~has(qrCodes, u)
                   /\ getStatus(u) = "not_initialized"

\* C20: after an authentication failure of a client that was pairing (its QR code
\* is the one stored), the client is no longer the client of the user
C20_AuthFailureEvicts ==
    \A u \in Users :
        \A k \in 1 .. MaxClients :
            (transport[u].phase[k] = "auth_failure" /\ qrCodes[u] = k)
                => clients[u] # k

\* C21: the QR code retained for a user is the one of the most recent challenge:
\* when no conversion is under way and a client of the user is pairing, after
\* every earlier client of the user has gone, the code stored is not the code of
\* an earlier client (whatsapp-manager.js)
C21_NewestCodeRetained ==
    variant = "manager" =>
        \A u \in Users :
            \A k, j \in 1 .. MaxClients :
                (/\ k < j
                 /\ transport[u].phase[j] = "pairing"
                 /\ transport[u].phase[k] \notin LivePhases
                 /\ transport[u].qrGen = {})
                    => qrCodes[u] # k

\* C22: the step in which client.logout() fails answers the logout request with
\* 500, leaves the client and the QR code of the user in the registry as they
\* were, changes the phase of no client, and leaves no logout of the user under
\* way: the logout is not issued again
C22_FailedLogoutChangesNothing ==
    [][\A u \in Users :
          (transport[u].loggingOut # 0 /\ transport'[u].answer = 500)
              => /\ clients' = clients
                 /\ qrCodes' = qrCodes
                 /\ transport'[u].phase = transport[u].phase
                 /\ transport'[u].loggingOut = 0]_vars

\* the logout of a user whose client is registered, with its QR code stored, has
\* been answered 500; the client and the code are still there
C22_Witness ==
    \E u \in Users :
        /\ transport[u].answer = 500
        /\ clients[u] = 1 /\ qrCodes[u] = 1
        /\ transport[u].phase[1] = "pairing"
        /\ transport[u].loggingOut = 0

\* what a step changed of user u: its client or QR code in the registry, its
\* transport clients, the questions outstanding in its chats, a handler of its
\* messages
Touched(u) ==
    \/ clients'[u] # clients[u]
    \/ qrCodes'[u] # qrCodes[u]
    \/ transport'[u] # transport[u]
    \/ \E c \in Convs : owner(c) = u /\ pending'[c] # pending[c]
    \/ \E s \in Slots :
          /\ slot'[s] # slot[s]
          /\ \/ slot[s].pc # "idle" /\ slot[s].user = u
             \/ slot'[s].pc # "idle" /\ slot'[s].user = u

\* C23: the users are independent: no step (a transport event, a message,
\* initialize, logout, the end of a backend call) changes the client, the QR
\* code, the transport clients, the outstanding questions or the handlers of
\* two users; what it changes of one user leaves every other user as it was
C23_TenantsIndependent ==
    [][Cardinality({u \in Users : Touched(u)}) <= 1]_vars

\* t1 was disconnected and is out of the registry while t2 is ready, in the
\* registry, with a question outstanding in its group
C23_Witness ==
    /\ transport["t1"].phase[1] = "disconnected" /\ clients["t1"] = 0
    /\ transport["t2"].phase[1] = "ready" /\ clients["t2"] = 1
    /\ pending["g2"] # <<>>

\* C24: the disconnect of the session of a user discards what is pending of that
\* user: after the step in which its client is disconnected no pending
\* validation is stored and no question is outstanding in its chats
\* (whatsapp-client.js)
C24_DisconnectDiscardsPending ==
    [][variant = "client" =>
          \A u \in Users :
              \A k \in 1 .. MaxClients :
                  (/\ transport[u].phase[k] # "disconnected"
                   /\ transport'[u].phase[k] = "disconnected")
                      => /\ \A p \in PendIds : pendingValidations'[p] = None
                         /\ \A c \in Convs : owner(c) = u => pending'[c] = <<>>]_vars

\* C25: every backend call is bounded by a timeout: a handler that awaits the
\* backend eventually stops awaiting it, with the response or with the failure,
\* whether the backend answers or not (whatsapp-manager.js)
C25_HandlerFinishes ==
    \A s \in Slots :
        (variant = "manager" /\ slot[s].pc = "awaitBackend")
            ~> (slot[s].pc # "awaitBackend")

\* the last n lines of a message
LastLines(lines, n) == SubSeq(lines, Len(lines) - n + 1, Len(lines))

\* C26: in a question that has been composed, a field that is absent from the
\* context has no line, and the message ends with the instruction lines of the
\* replies of its kind
C26_AbsentFieldNoLine ==
    question.lines # <<>> =>
        /\ \A f \in Fields :
              question.info[f] = None
                  => \A i \in 1 .. Len(question.lines) : question.lines[i].field # f
        /\ LET ins == Instructions(question.template) IN
           /\ Len(question.lines) >= Len(ins)
           /\ LastLines(question.lines, Len(ins))
                  = [i \in 1 .. Len(ins) |-> Line("instruction", ins[i])]

\* C27: a fresh reply in a group whose text is a reply token of the other kind
\* than the question outstanding in the group ('sim', 'não', 'editar' while a
\* category question is outstanding, 'material', 'mao de obra' while a
\* validation question is) is no answer: it is forwarded as a new item, in one
\* submission to /webhook
C27_OnlyTokensOfPendingKind ==
    variant \in {"manager", "client"} =>
        \A h \in Handlers :
            (/\ Fresh(h)
             /\ h.body \in ReplyTokens
             /\ pending[h.conv] # <<>>
             /\ pending[h.conv][1] # TokenKind(h.body))
                => (Len(h.calls) = 1 /\ h.calls[1].ep = "webhook")

\* C28: a handler that has read the response to its /category-selection request
\* has sent at most one question to the conversation, whatever the response
\* carried (unified handler)
C28_OneQuestionPerResponse ==
    variant = "manager" =>
        \A h \in Handlers :
            (h.calls # <<>> /\ h.calls[1].ep = "category-selection")
                => Len(QuestionsTo(h.out, h.conv)) <= 1

FailsIn(s) == slot'[s].fail # slot[s].fail /\ slot'[s].fail # {}

ReadWebhook ==
    {h \in Handlers : /\ h.pc = "done" /\ h.fail = {}
                      /\ h.calls # <<>> /\ h.calls[1].ep = "webhook"
                      /\ h.resp.status # None}

\* C31: a handler of the unified version that has read a /webhook response with
\* a command status has sent the response's message and nothing else if the
\* response has a message, and nothing if it has none, and no question is
\* outstanding from it; with status diary_entry_saved, or with a status the
\* handler does not know and no validation_required, it has sent nothing.  The
\* same holds of what handleMessage composes for every command status.
C31_CommandStatusReplies ==
    /\ variant = "manager" =>
          \A h \in ReadWebhook :
              /\ h.resp.status \in commandStatuses =>
                    /\ h.out = (IF h.resp.message
                                  THEN <<Sent(Msg("reply", h.conv))>> ELSE <<>>)
                    /\ QuestionsTo(h.out, h.conv) = <<>>
              /\ (\/ h.resp.status = "diary_entry_saved"
                  \/ (h.resp.status = "processed" /\ ~h.resp.validation_required))
                    => h.out = <<>>
    /\ \A st \in commandStatuses, msg, info, val \in BOOLEAN :
          handleMessage([status |-> st, message |-> msg, processed_info |-> info,
                         validation_required |-> val], "g1")
              = (IF msg THEN <<Msg("reply", "g1")>> ELSE <<>>)

\* a handler of the unified version has read a command response that has a
\* message, processed_info and validation_required, and has sent the message
C31_Witness ==
    /\ variant = "manager"
    /\ \E h \in ReadWebhook :
          /\ h.resp.status = "info" /\ h.resp.message
          /\ h.resp.validation_required /\ h.resp.processed_info
          /\ h.out = <<Sent(Msg("reply", h.conv))>>

\* C32: while the client of a user in the registry is ready, no QR code is
\* stored for the user: getQRCode returns null and getStatus reports hasQR
\* false (whatsapp-manager.js)
C32_NoCodeWhileReady ==
    variant = "manager" =>
        \A u \in Users :
            (clients[u] # 0 /\ transport[u].phase[clients[u]] = "ready")
                => qrCodes[u] = 0

\* C33: a QR code is stored only for a user that has a client in the registry
\* (whatsapp-manager.js)
C33_CodeOnlyWithClient ==
    variant = "manager" =>
        \A u \in Users : qrCodes[u] # 0 => clients[u] # 0

\* a step in which a handler of an event of client k of u runs or resumes
\* (the step is not the settling of a logout)
EventOf(u, k) ==
    /\ transport'[u].loggingOut = transport[u].loggingOut
    /\ \/ transport'[u].phase[k] # transport[u].phase[k]
       \/ transport'[u].qrGen # transport[u].qrGen /\ k \in transport[u].qrGen \cup transport'[u].qrGen

\* C34: a step of an event handler of a client that is not the one registered
\* for its user, while another client is, leaves the registered client and the
\* QR code of the user as they are (whatsapp-manager.js)
C34_ReplacedClientIsInert ==
    [][variant = "manager" =>
         \A u \in Users :
             \A k \in 1 .. MaxClients :
                 (clients[u] # 0 /\ k # clients[u] /\ EventOf(u, k))
                     => (clients'[u] = clients[u] /\ qrCodes'[u] = qrCodes[u])]_vars

\* C35: a handler of a message of the first client of a user that reads the
\* backend's response after that client was removed from the registry (the
\* registry holds no client of the user, or a later one) sends nothing, and no
\* exception leaves it (whatsapp-manager.js)
C35_EvictedHandlerSendsNothing ==
    [][variant = "manager" =>
         \A s \in Slots :
             (/\ slot[s].pc = "awaitBackend" /\ slot'[s].pc = "done"
              /\ slot'[s].resp.status # None
              /\ clients[slot[s].user] # 1)
                 => (slot'[s].out = <<>> /\ ~slot'[s].esc)]_vars

\* a step that answers a GET request on u
Queried(u) == transport'[u].query # transport[u].query

\* C36: only getClient registers a client: a step that registers a client for a
\* user is the creation of a new client by getClient, and a GET request or a
\* logout request registers none; for a user without a client the status
\* request answers connected false, hasQR false and 'not_initialized', the QR
\* request answers null, the groups request is answered with an error, and the
\* logout request is answered 200 and changes nothing (whatsapp-manager.js)
C36_OnlyGetClientRegisters ==
    [][variant = "manager" =>
         \A u \in Users :
             /\ (clients[u] = 0 /\ clients'[u] # 0)
                   => transport'[u].created = transport[u].created + 1
             /\ Queried(u) => (clients' = clients /\ qrCodes' = qrCodes)
             /\ (Queried(u) /\ clients[u] = 0) =>
                   LET q == transport'[u].query IN
                   /\ q.op = "status" =>
                         (~q.connected /\ ~q.hasQR /\ q.client_state = "not_initialized")
                   /\ q.op = "qr" => q.qr = 0
                   /\ q.op = "groups" => q.code = 500
             /\ (clients[u] = 0 /\ transport[u].loggingOut = 0
                 /\ transport'[u].answer # transport[u].answer)
                   => (/\ transport'[u].answer = 200
                       /\ clients' = clients /\ qrCodes' = qrCodes)]_vars

C38_MediaFailureEndsHandler ==
    variant = "manager" =>
        \A h \in Handlers :
            "media" \in h.fail =>
                (h.calls = <<>> /\ h.out = <<>> /\ ~h.esc /\ h.pc = "done")

\* a handler of the unified version has returned after the download of the
\* media of a fresh group message failed
C38_Witness ==
    /\ variant = "manager"
    /\ \E h \in Handlers :
          /\ h.pc = "done" /\ h.fail = {"media"} /\ h.drop = None
          /\ hasMedia(h.type) /\ isGroup(h.conv)

\* C39: once the SIGINT handler has run to its end, no user has a client in the
\* registry or a QR code, whether the destroy() of a client threw or not, and
\* the loop has been through the client of every user that had one
C39_ShutdownEmptiesRegistry ==
    shutdown.pc \in {"exited", "failed"} =>
        /\ \A u \in Users : clients[u] = 0 /\ qrCodes[u] = 0
        /\ \A u \in Users : transport[u].created > 0 => u \in shutdown.visited

====
